---- MODULE Spec2Model ----
(***************************************************************************)
(* The interval-partition and constraint engine of iatw: AlignmentModel,   *)
(* the Interval hierarchy and Parameter (src/iatw/AlignmentModel.py,       *)
(* src/iatw/Intervals.py, src/iatw/Parameter.py).                          *)
(*                                                                         *)
(* Real numbers are points of an integer grid.  On the reference axis one  *)
(* grid unit is 0.2, so the reference support (0.0, 1.0) of the test model *)
(* is (0, 5) and a reference length of 0.6 is 3.  On the query axis one    *)
(* grid unit is 1.  Arithmetic on the grid is exact.                       *)
(*                                                                         *)
(* An optional value (Python None) is the empty sequence, a present value  *)
(* v is <<v>>.  The outcome of a call is a record: ok, the error kind      *)
(* raised (err) and the returned numbers (val, a sequence).                *)
(***************************************************************************)
EXTENDS Integers, Sequences, FiniteSets, TLC

\* ---------------------------------------------------------------- bounds
\* largest reference coordinate x looked up with P_for_x
MaxCoord == 7
\* largest reference length an interval is constructed with or set to
MaxRefLength == 3
\* largest relative weight / length the optimizer writes into a parameter
MaxWeight == 1
\* largest query coordinate (values and bounds of qry_begin / qry_end)
MaxQry == 3
\* largest minimum separation gamma_d
MaxGamma == 2

\* upper end of the widest reference support a model is built with
MaxSupport == 6
\* longest list of kernels of a problem
MaxKernels == 2
\* longest list of losses and of regularizers of a problem
MaxLosses == 3

\* ------------------------------------------------------- program constants
\* ref_begin of the test model: Parameter('ref_begin', 0.0, 0.0, 1.0)
RefBeginUpper == 5
\* qry_begin of the test model: Parameter('qry_begin', 0.0, 0.0, 3.14)
QryBeginUpper == 3
\* qry_end of the test model: Parameter('qry_end', 3.14, 0.0, 5.0)
QryEndValue == 3
QryEndUpper == 5
\* sys.maxsize, the default idx of add_interval (2^63 - 1 in the source; the
\* largest integer of the model here: it is only ever compared with a length)
maxsize == 2147483647

\* ------------------------------------------------------------- primitives
None == << >>
Some(v) == << v >>
IsNone(o) == Len(o) = 0
Get(o) == o[1]

Ok(v) == [ok |-> TRUE, err |-> "", val |-> v]
Raise(e) == [ok |-> FALSE, err |-> e, val |-> << >>]
\* an error whose message reports a number
RaiseWith(e, v) == [ok |-> FALSE, err |-> e, val |-> << v >>]

\* float('nan'): a reserved point outside the grid.  It is never ordered: as
\* in the source, every guard asks isnan before it compares.
NaN == 0 - 99
IsNaN(v) == v = NaN

Min2(a, b) == IF a <= b THEN a ELSE b
Max2(a, b) == IF a >= b THEN a ELSE b

\* dataclass Parameter (name omitted)
Parameter(value, lower_bound, upper_bound, is_trainable) ==
    [value |-> value, lower_bound |-> lower_bound,
     upper_bound |-> upper_bound, is_trainable |-> is_trainable]

\* Parameter.bounds (getter)
bounds(p) == << p.lower_bound, p.upper_bound >>

\* the bounds setter storing the lower bound twice
bounds_set_lower(p, value) ==
    [p EXCEPT !.lower_bound = Some(value[1]), !.upper_bound = Some(value[1])]

\* Parameter.bounds (setter): the parameter after the assignment
bounds_set(p, value) ==
    [p EXCEPT !.lower_bound = Some(value[1]), !.upper_bound = Some(value[2])]

\* Parameter.is_within_bounds
is_within_bounds(p) ==
    IF IsNone(p.lower_bound) \/ IsNone(p.upper_bound) \/ IsNone(p.value)
    THEN Raise("ConfigurationError")
    ELSE IF IsNaN(Get(p.lower_bound)) \/ IsNaN(Get(p.upper_bound)) \/ IsNaN(Get(p.value))
    THEN Raise("ConfigurationError")
    ELSE Ok(<< IF Get(p.value) >= Get(p.lower_bound) /\ Get(p.value) <= Get(p.upper_bound)
               THEN 1 ELSE 0 >>)

IntervalType == {"CONSTANT", "MIN_MAX", "FLEXIBLE", "RELATIVE"}

VARIABLES
    ref_begin,   \* AlignmentModel._ref_begin : Parameter
    qry_begin,   \* AlignmentModel.qry_begin  : Parameter
    qry_end,     \* AlignmentModel.qry_end    : Parameter
    gamma_d,     \* AlignmentModel.gamma_d    : optional number
    intervals,   \* AlignmentModel._intervals : deque of interval objects
    problem,     \* the AlignmentProblem objects: kernels, losses, regularizers
    ret          \* the last call and its outcome

vars == << ref_begin, qry_begin, qry_end, gamma_d, intervals, problem, ret >>

\* op and arg (numbers) name the call, interval holds an interval object passed
\* to it (a sequence of 0 or 1 objects); ok, err and val are its outcome
CallWith(op, arg, interval, res) ==
    [op |-> op, arg |-> arg, interval |-> interval, params |-> << >>,
     ok |-> res.ok, err |-> res.err, val |-> res.val]
Call(op, arg, res) == CallWith(op, arg, << >>, res)
\* a call that is passed Parameter objects
CallParams(op, params, res) == [Call(op, << >>, res) EXCEPT !.params = params]

\* ------------------------------------------------------ interval objects
\* An interval object: its identity (id), Interval.interval_type,
\* Interval._ref_length and Interval._params (a list of 0 or 1 Parameter).

\* IntervalWithLength.__init__ with length=None, then the subclass __init__
NewInterval(id, type, ref_length) ==
    [id |-> id, interval_type |-> type, ref_length |-> ref_length,
     params |-> IF type = "FLEXIBLE" THEN << >>
                ELSE << Parameter(None, None, None, type \in {"MIN_MAX", "RELATIVE"}) >>]

\* ----------------------------------------------------- AlignmentProblem
\* AlignmentProblem.__init__, for the class of iatw/AlignmentProblem.py
\* (kernels) and the class of iatw/problem/AlignmentProblem.py (pkernels);
\* _losses and _regularizers are the same in both
NewProblem ==
    [kernels |-> << >>, pkernels |-> << >>, losses |-> << >>, regularizers |-> << >>]

\* ------------------------------------------------------- AlignmentModel
\* AlignmentModel.__init__ of the test's create_model()
Init ==
    /\ ref_begin = Parameter(Some(0), Some(0), Some(RefBeginUpper), FALSE)
    /\ qry_begin = Parameter(Some(0), Some(0), Some(QryBeginUpper), TRUE)
    /\ qry_end = Parameter(Some(QryEndValue), Some(0), Some(QryEndUpper), TRUE)
    /\ gamma_d = None
    /\ intervals = << >>
    /\ problem = NewProblem
    /\ ret = Call("init", << >>, Ok(<< >>))

\* AlignmentModel.ref_supp (getter)
ref_supp(rb) == bounds(rb)

\* AlignmentModel.intervals(type)
intervals_of(ivs, type) == SelectSeq(ivs, LAMBDA i : i.interval_type = type)

\* has_flexible_interval counting one interval too late
has_flexible_interval_late(ivs) == Len(intervals_of(ivs, "FLEXIBLE")) > 1

\* the value of a member of the enum IntervalType (auto())
TypeValue(type) ==
    CASE type = "CONSTANT" -> 1
      [] type = "MIN_MAX" -> 2
      [] type = "FLEXIBLE" -> 3
      [] type = "RELATIVE" -> 4

\* list(m.intervals(type)), type None or a member of IntervalType: val holds
\* the identities of the objects listed
ReadIntervals ==
    \E type \in {None} \cup { Some(TypeValue(t)) : t \in IntervalType } :
        LET listed == IF IsNone(type) THEN intervals
                      ELSE intervals_of(intervals,
                               CHOOSE t \in IntervalType : TypeValue(t) = Get(type))
        IN /\ ret' = Call("intervals", type, Ok([k \in 1..Len(listed) |-> listed[k].id]))
           /\ UNCHANGED << problem, ref_begin, qry_begin, qry_end, gamma_d, intervals >>

\* AlignmentModel.has_flexible_interval
has_flexible_interval(ivs) == Len(intervals_of(ivs, "FLEXIBLE")) = 1

\* sum([i.ref_length for i in self.intervals()])
RECURSIVE used_ref_length(_)
used_ref_length(ivs) ==
    IF ivs = << >> THEN 0 ELSE Head(ivs).ref_length + used_ref_length(Tail(ivs))

\* deque.insert appending whatever the index
deque_insert_append(s, idx, x) == Append(s, x)

\* collections.deque.insert(idx, x)
deque_insert(s, idx, x) ==
    LET n == Len(s)
        pos == IF idx >= n THEN n
               ELSE IF idx <= 0 - n \/ idx = 0 THEN 0
               ELSE IF idx < 0 THEN n + idx
               ELSE idx
    IN SubSeq(s, 1, pos) \o << x >> \o SubSeq(s, pos + 1, n)

\* add_interval rejecting an interval that fills the support exactly
add_interval_strict(ivs, rb, interval) ==
    IF has_flexible_interval(ivs) /\ interval.interval_type = "FLEXIBLE"
    THEN Raise("CapacityError")
    ELSE LET ref_length == Get(ref_supp(rb)[2]) - Get(ref_supp(rb)[1])
             used == used_ref_length(ivs)
         IN IF used + interval.ref_length >= ref_length
            THEN RaiseWith("CapacityError", used + interval.ref_length - ref_length)
            ELSE Ok(<< >>)

\* the guards of AlignmentModel.add_interval, in order
add_interval(ivs, rb, interval) ==
    IF has_flexible_interval(ivs) /\ interval.interval_type = "FLEXIBLE"
    THEN Raise("CapacityError")
    ELSE LET ref_length == Get(ref_supp(rb)[2]) - Get(ref_supp(rb)[1])
             used == used_ref_length(ivs)
         IN IF used + interval.ref_length > ref_length
            THEN RaiseWith("CapacityError", used + interval.ref_length - ref_length)
            ELSE Ok(<< >>)

\* the interval objects a caller can pass: one in the sequence, or a new one
IdsOf(ivs) == { ivs[k].id : k \in 1..Len(ivs) }
FreshId(ivs) == CHOOSE n \in 1..(Len(ivs) + 1) : n \notin IdsOf(ivs)
RefLengths == 2..MaxRefLength
Candidates(ivs) ==
    { ivs[k] : k \in 1..Len(ivs) }
    \cup { NewInterval(FreshId(ivs), t, l) : t \in IntervalType, l \in RefLengths }
Indexes == {0 - 1, 0, 1, maxsize}

AddInterval ==
    \E interval \in Candidates(intervals), idx \in Indexes :
        LET res == add_interval(intervals, ref_begin, interval)
        IN /\ intervals' = IF res.ok THEN deque_insert(intervals, idx, interval)
                           ELSE intervals
           /\ ret' = CallWith("add_interval", << interval.id, idx >>, << interval >>, res)
           /\ UNCHANGED << problem, ref_begin, qry_begin, qry_end, gamma_d >>


\* the ref_length setter refusing negative values only
set_ref_length_negative(value) ==
    IF IsNaN(value) \/ value < 0 THEN Raise("ConfigurationError") ELSE Ok(<< >>)

\* Interval.ref_length (setter), on the object with identity id
set_ref_length(value) ==
    IF IsNaN(value) \/ value <= 0 THEN Raise("ConfigurationError") ELSE Ok(<< >>)

RefLengthValues == {NaN, 0} \cup RefLengths

SetRefLength ==
    \E id \in IdsOf(intervals), value \in RefLengthValues :
        LET res == set_ref_length(value)
        IN /\ intervals' = IF res.ok
                           THEN [k \in 1..Len(intervals) |->
                                   IF intervals[k].id = id
                                   THEN [intervals[k] EXCEPT !.ref_length = value]
                                   ELSE intervals[k]]
                           ELSE intervals
           /\ ret' = Call("set_ref_length", << id, value >>, res)
           /\ UNCHANGED << problem, ref_begin, qry_begin, qry_end, gamma_d >>

\* the ref_supp setter accepting an empty support
ref_supp_set_empty(rb, value) ==
    IF IsNaN(value[1]) \/ IsNaN(value[2]) \/ value[1] > value[2]
    THEN [res |-> Raise("ConfigurationError"), ref_begin |-> rb]
    ELSE [res |-> Ok(<< >>), ref_begin |-> bounds_set(rb, value)]

\* AlignmentModel.ref_supp (setter): the parameter it leaves in _ref_begin
ref_supp_set(rb, value) ==
    IF IsNaN(value[1]) \/ IsNaN(value[2]) \/ value[1] >= value[2]
    THEN [res |-> Raise("ConfigurationError"), ref_begin |-> rb]
    ELSE [res |-> Ok(<< >>), ref_begin |-> bounds_set(rb, value)]

\* the supports and parameters offered to the two setters
SuppValues == { << 0, 1 >>, << 1, 1 >>, << 0, RefBeginUpper >> }

SetRefSupp ==
    \E value \in SuppValues :
        LET r == ref_supp_set(ref_begin, value)
        IN /\ ref_begin' = r.ref_begin
           /\ ret' = Call("set_ref_supp", value, r.res)
           /\ UNCHANGED << problem, qry_begin, qry_end, gamma_d, intervals >>

\* AlignmentModel.ref_begin (setter): the parameter it leaves in _ref_begin
ref_begin_set(rb, value) ==
    IF IsNone(value.value) \/ IsNaN(Get(value.value))
    THEN [res |-> Raise("ConfigurationError"), ref_begin |-> rb]
    ELSE LET w == is_within_bounds(value)
         IN IF ~w.ok \/ w.val = << 0 >>
            THEN [res |-> Raise("ConfigurationError"), ref_begin |-> rb]
            ELSE ref_supp_set(value, << Get(value.lower_bound), Get(value.upper_bound) >>)

BeginValues ==
    { Parameter(v, Some(b[1]), Some(b[2]), FALSE) :
        v \in {None, Some(0), Some(1)}, b \in { << 1, 1 >>, << 0, RefBeginUpper >> } }

SetRefBegin ==
    \E value \in BeginValues :
        LET r == ref_begin_set(ref_begin, value)
        IN /\ ref_begin' = r.ref_begin
           /\ ret' = Call("set_ref_begin",
                          value.value \o value.lower_bound \o value.upper_bound, r.res)
           /\ UNCHANGED << problem, qry_begin, qry_end, gamma_d, intervals >>

\* AlignmentModel.__init__: the ref_begin setter on the new object, whose
\* _ref_begin is None, then the guard on the query bounds
alignment_model(rb, qb, qe, g) ==
    LET r == ref_begin_set(Parameter(None, None, None, FALSE), rb)
    IN IF ~r.res.ok THEN r.res
       ELSE IF Get(qb.lower_bound) >= Get(qe.upper_bound) THEN Raise("ConfigurationError")
       ELSE Ok(<< >>)

\* the parameters offered to the constructor: the test's, and others
InitRefBegins ==
    { Parameter(v, b[1], b[2], FALSE) :
        v \in {None, Some(NaN), Some(0), Some(1)},
        b \in { << None, None >>, << Some(0), Some(RefBeginUpper) >>,
                << Some(1), Some(1) >>, << Some(1), Some(RefBeginUpper) >> } }
InitQryBounds == { << 0, QryEndUpper >>, << QryBeginUpper, QryBeginUpper >> }

\* a = AlignmentModel(...): the caller holds the new model if the call
\* returns and the model it held before if the call raises
ConstructModel ==
    \E rb \in InitRefBegins, q \in InitQryBounds :
        LET qb == Parameter(Some(0), Some(q[1]), Some(QryBeginUpper), TRUE)
            qe == Parameter(Some(QryEndValue), Some(0), Some(q[2]), TRUE)
            res == alignment_model(rb, qb, qe, None)
        IN /\ ret' = CallParams("AlignmentModel", << rb, qb, qe >>, res)
           /\ IF res.ok
              THEN /\ ref_begin' = rb
                   /\ qry_begin' = qb
                   /\ qry_end' = qe
                   /\ gamma_d' = None
                   /\ intervals' = << >>
              ELSE UNCHANGED << ref_begin, qry_begin, qry_end, gamma_d, intervals >>
           /\ UNCHANGED problem

\* p.bounds = (lo, hi) on the parameter qry_begin of the model
BoundValues == {NaN} \cup (0..MaxQry)

SetBounds ==
    \E lo \in BoundValues, hi \in BoundValues :
        /\ qry_begin' = bounds_set(qry_begin, << lo, hi >>)
        /\ ret' = Call("set_bounds", << lo, hi >>, Ok(<< >>))
        /\ UNCHANGED << problem, ref_begin, qry_end, gamma_d, intervals >>

\* the optimizer writes the value of a trainable parameter of an interval
SetParamValue ==
    \E id \in IdsOf(intervals), value \in 0..MaxWeight :
        /\ \E k \in 1..Len(intervals) :
              /\ intervals[k].id = id
              /\ Len(intervals[k].params) > 0
              /\ intervals[k].params[1].is_trainable
        /\ intervals' = [k \in 1..Len(intervals) |->
                           IF intervals[k].id = id
                           THEN [intervals[k] EXCEPT !.params[1].value = Some(value)]
                           ELSE intervals[k]]
        /\ ret' = Call("set_value", << id, value >>, Ok(<< >>))
        /\ UNCHANGED << problem, ref_begin, qry_begin, qry_end, gamma_d >>

\* reference_boundaries adding every length to the first boundary
RECURSIVE reference_boundaries_first(_, _)
reference_boundaries_first(t, ivs) ==
    IF ivs = << >> THEN t
    ELSE reference_boundaries_first(Append(t, t[1] + Head(ivs).ref_length), Tail(ivs))

\* AlignmentModel.reference_boundaries (theta_b): the loop over the intervals
RECURSIVE reference_boundaries_from(_, _)
reference_boundaries_from(t, ivs) ==
    IF ivs = << >> THEN t
    ELSE reference_boundaries_from(Append(t, t[Len(t)] + Head(ivs).ref_length), Tail(ivs))

reference_boundaries(ivs, rb) == reference_boundaries_from(<< Get(rb.value) >>, ivs)

ReadReferenceBoundaries ==
    /\ ret' = Call("reference_boundaries", << >>, Ok(reference_boundaries(intervals, ref_begin)))
    /\ UNCHANGED << problem, ref_begin, qry_begin, qry_end, gamma_d, intervals >>

\* P_for_x with sub-intervals closed on the right
P_for_x_closed(ivs, rb, x) ==
    LET t == reference_boundaries(ivs, rb)
        P == Len(ivs)
        hits == { idx \in 0..(P - 2) : x >= t[idx + 1] /\ x <= t[idx + 2] }
    IN IF x < t[1] \/ x > t[Len(t)]
       THEN Raise("OutOfRangeError")
       ELSE IF hits # {}
            THEN Ok(<< CHOOSE idx \in hits : \A j \in hits : idx <= j >>)
            ELSE Ok(<< P - 1 >>)

\* AlignmentModel.P_for_x (kappa_of_x)
P_for_x(ivs, rb, x) ==
    LET t == reference_boundaries(ivs, rb)
        P == Len(ivs)
        hits == { idx \in 0..(P - 2) : x >= t[idx + 1] /\ x < t[idx + 2] }
    IN IF x < t[1] \/ x > t[Len(t)]
       THEN Raise("OutOfRangeError")
       ELSE IF hits # {}
            THEN Ok(<< CHOOSE idx \in hits : \A j \in hits : idx <= j >>)
            ELSE Ok(<< P - 1 >>)

Xs == (0 - 1)..MaxCoord

ReadPForX ==
    \E x \in Xs :
        /\ ret' = Call("P_for_x", << x >>, P_for_x(intervals, ref_begin, x))
        /\ UNCHANGED << problem, ref_begin, qry_begin, qry_end, gamma_d, intervals >>

\* beta_L refusing equal begin and end values
beta_L_equal(b, e, g) ==
    IF IsNone(g)
    THEN IF Get(b.value) >= Get(e.value)
         THEN Raise("IllegalStateError")
         ELSE Ok(<< Get(b.value) >>)
    ELSE Ok(<< Min2(Get(e.upper_bound) - Get(g),
                    Max2(Get(b.lower_bound), Min2(Get(b.value), Get(e.value)))) >>)

\* AlignmentModel.beta_L
beta_L(b, e, g) ==
    IF IsNone(g)
    THEN IF Get(b.value) > Get(e.value)
         THEN Raise("IllegalStateError")
         ELSE Ok(<< Get(b.value) >>)
    ELSE Ok(<< Min2(Get(e.upper_bound) - Get(g),
                    Max2(Get(b.lower_bound), Min2(Get(b.value), Get(e.value)))) >>)

\* AlignmentModel.beta_U
beta_U(b, e, g) ==
    IF IsNone(g)
    THEN IF Get(b.value) > Get(e.value)
         THEN Raise("IllegalStateError")
         ELSE Ok(<< Get(e.value) >>)
    ELSE Ok(<< Max2(Get(b.lower_bound) + Get(g),
                    Min2(Get(e.upper_bound), Max2(Get(b.value), Get(e.value)))) >>)

ReadBetaL ==
    /\ ret' = Call("beta_L", << >>, beta_L(qry_begin, qry_end, gamma_d))
    /\ UNCHANGED << problem, ref_begin, qry_begin, qry_end, gamma_d, intervals >>

ReadBetaU ==
    /\ ret' = Call("beta_U", << >>, beta_U(qry_begin, qry_end, gamma_d))
    /\ UNCHANGED << problem, ref_begin, qry_begin, qry_end, gamma_d, intervals >>

\* the optimizer writes the value of qry_begin or of qry_end
QryValues == 0..MaxQry

SetQryBegin ==
    \E value \in QryValues :
        /\ qry_begin' = [qry_begin EXCEPT !.value = Some(value)]
        /\ ret' = Call("set_qry_begin", << value >>, Ok(<< >>))
        /\ UNCHANGED << problem, ref_begin, qry_end, gamma_d, intervals >>

SetQryEnd ==
    \E value \in QryValues :
        /\ qry_end' = [qry_end EXCEPT !.value = Some(value)]
        /\ ret' = Call("set_qry_end", << value >>, Ok(<< >>))
        /\ UNCHANGED << problem, ref_begin, qry_begin, gamma_d, intervals >>

\* AlignmentModel.available_length (rho): self.beta_U is read, then called
available_length(b, e, g, ivs) ==
    LET bu == beta_U(b, e, g)
    IN IF ~bu.ok THEN bu ELSE Raise("TypeError")

ReadAvailableLength ==
    /\ ret' = Call("available_length", << >>,
                   available_length(qry_begin, qry_end, gamma_d, intervals))
    /\ UNCHANGED << problem, ref_begin, qry_begin, qry_end, gamma_d, intervals >>

\* AlignmentModel.relative_lengths (r): the weights, each an optional number
relative_lengths(ivs) ==
    LET rel == intervals_of(ivs, "RELATIVE")
    IN [k \in 1..Len(rel) |-> rel[k].params[1].value]

RECURSIVE SumSome(_)
SumSome(r) == IF r = << >> THEN 0 ELSE Get(Head(r)) + SumSome(Tail(r))

\* AlignmentModel.mu_R
mu_R(ivs) ==
    LET r == relative_lengths(ivs)
    IN IF \E k \in 1..Len(r) : IsNone(r[k])
       THEN Raise("TypeError")
       ELSE IF SumSome(r) = 0
            THEN Raise("AttributeError")
            ELSE Ok(<< 0 >>)

ReadMuR ==
    /\ ret' = Call("mu_R", << >>, mu_R(intervals))
    /\ UNCHANGED << problem, ref_begin, qry_begin, qry_end, gamma_d, intervals >>

\* interval.length(), the call without arguments, on each variant:
\*   RELATIVE  RelativeLengthInterval.length reads m.mu_R and then calls it
\*   FLEXIBLE  the second "def length(self, value)" replaces the first
\*   CONSTANT  ConstantLengthInterval.length takes a value
\*   MIN_MAX   IntervalWithLength.length is a property, its value is called
length(ivs, interval) ==
    CASE interval.interval_type = "RELATIVE" ->
            LET m == mu_R(ivs) IN IF ~m.ok THEN m ELSE Raise("TypeError")
      [] interval.interval_type = "FLEXIBLE" -> Raise("TypeError")
      [] interval.interval_type = "CONSTANT" -> Raise("TypeError")
      [] interval.interval_type = "MIN_MAX" -> Raise("TypeError")

ReadLength ==
    \E k \in 1..Len(intervals) :
        /\ ret' = CallWith("length", << intervals[k].id >>, << intervals[k] >>,
                           length(intervals, intervals[k]))
        /\ UNCHANGED << problem, ref_begin, qry_begin, qry_end, gamma_d, intervals >>

\* FlexibleInterval.length(value)
flexible_set_length(value) == Raise("IllegalStateError")

FlexibleSetLength ==
    \E k \in 1..Len(intervals), value \in 0..MaxWeight :
        /\ intervals[k].interval_type = "FLEXIBLE"
        /\ ret' = CallWith("flexible_set_length", << intervals[k].id, value >>,
                           << intervals[k] >>, flexible_set_length(value))
        /\ UNCHANGED << problem, ref_begin, qry_begin, qry_end, gamma_d, intervals >>

\* the constructor of each interval class
ClassOf(type) ==
    CASE type = "CONSTANT" -> "ConstantLengthInterval"
      [] type = "MIN_MAX" -> "MinMaxLengthInterval"
      [] type = "RELATIVE" -> "RelativeLengthInterval"
      [] type = "FLEXIBLE" -> "FlexibleInterval"

\* Interval.__init__, IntervalWithLength.__init__ and the __init__ of the
\* class: the guard on ref_length, then self.length(length=length) when a
\* length is given.  That call raises TypeError in every class: CONSTANT
\* and RELATIVE define a method length without a parameter of that name,
\* MIN_MAX inherits the property, whose value (None) is not callable.
new_interval(id, type, ref_length, length_) ==
    IF IsNaN(ref_length) \/ ref_length <= 0
    THEN [res |-> Raise("ConfigurationError"), interval |-> << >>]
    ELSE IF ~IsNone(length_) /\ ~IsNaN(Get(length_))
         THEN [res |-> Raise("TypeError"), interval |-> << >>]
         ELSE [res |-> Ok(<< >>), interval |-> << NewInterval(id, type, ref_length) >>]

\* the lengths offered to constructors and setters
LengthValues == {NaN, 0 - 1} \cup (0..MaxWeight)

\* FlexibleInterval takes no length
ConstructInterval ==
    \E type \in IntervalType, ref_length \in RefLengthValues,
       length_ \in {None} \cup { Some(v) : v \in LengthValues } :
        /\ type = "FLEXIBLE" => length_ = None
        /\ LET r == new_interval(FreshId(intervals), type, ref_length, length_)
           IN ret' = CallWith(ClassOf(type), << ref_length >> \o length_, r.interval, r.res)
        /\ UNCHANGED << problem, ref_begin, qry_begin, qry_end, gamma_d, intervals >>

\* Setting the length of an interval object, as its class offers it:
\* ConstantLengthInterval.length(value), whose first statement
\* super().length = value raises AttributeError; the property setter
\* IntervalWithLength.length of a MIN_MAX interval; RelativeLengthInterval
\* .length(), which takes no value; FlexibleInterval.length(value).
length_set(interval, value) ==
    CASE interval.interval_type = "CONSTANT" ->
            [res |-> Raise("AttributeError"), interval |-> interval]
      [] interval.interval_type = "MIN_MAX" ->
            IF IsNaN(value) \/ value < 0
            THEN [res |-> Raise("ConfigurationError"), interval |-> interval]
            ELSE [res |-> Ok(<< >>),
                  interval |-> [interval EXCEPT !.params[1].value = Some(value)]]
      [] interval.interval_type = "RELATIVE" ->
            [res |-> Raise("TypeError"), interval |-> interval]
      [] interval.interval_type = "FLEXIBLE" ->
            [res |-> flexible_set_length(value), interval |-> interval]

SetLength ==
    \E j \in 1..Len(intervals), value \in LengthValues :
        LET r == length_set(intervals[j], value)
        IN /\ intervals' = [k \in 1..Len(intervals) |->
                              IF intervals[k].id = intervals[j].id
                              THEN r.interval ELSE intervals[k]]
           /\ ret' = CallWith("set_length", << intervals[j].id, value >>,
                              << intervals[j] >>, r.res)
           /\ UNCHANGED << problem, ref_begin, qry_begin, qry_end, gamma_d >>

\* MinMaxLengthInterval.min_max_lengths (setter).  After its two guards it
\* calls self.length(), the value of a property (None or a float): TypeError.
\* The statements after that call are never reached.
min_max_lengths_set(interval, mm) ==
    IF IsNaN(mm[1]) \/ IsNaN(mm[2])
    THEN [res |-> Raise("ConfigurationError"), interval |-> interval]
    ELSE IF mm[1] >= mm[2]
         THEN [res |-> Raise("ConfigurationError"), interval |-> interval]
         ELSE [res |-> Raise("TypeError"), interval |-> interval]

MinMaxValues == {NaN} \cup (0..(MaxWeight + 1))

SetMinMaxLengths ==
    \E j \in 1..Len(intervals), lo \in MinMaxValues, hi \in MinMaxValues :
        /\ intervals[j].interval_type = "MIN_MAX"
        /\ LET r == min_max_lengths_set(intervals[j], << lo, hi >>)
           IN /\ intervals' = [k \in 1..Len(intervals) |->
                                 IF intervals[k].id = intervals[j].id
                                 THEN r.interval ELSE intervals[k]]
              /\ ret' = CallWith("set_min_max_lengths", << intervals[j].id, lo, hi >>,
                                 << intervals[j] >>, r.res)
        /\ UNCHANGED << problem, ref_begin, qry_begin, qry_end, gamma_d >>

\* ---------------------------------------------------------------- kernels
\* The attribute interval.length read without calling it, where a number is
\* needed: the property of IntervalWithLength gives the stored value of a
\* MIN_MAX interval; the other classes define length as a method, and a bound
\* method, like the value None, is no number (None here).
length_attr(interval) ==
    IF interval.interval_type = "MIN_MAX" THEN interval.params[1].value ELSE None

\* AlignmentModel.interval_offset: the loop, from the offset reached so far
RECURSIVE interval_offset_from(_, _, _)
interval_offset_from(offset, ivs, interval) ==
    IF ivs = << >> THEN Ok(<< offset >>)
    ELSE IF Head(ivs).id = interval.id THEN Ok(<< offset >>)
    ELSE IF IsNone(length_attr(Head(ivs))) THEN Raise("TypeError")
    ELSE interval_offset_from(offset + Get(length_attr(Head(ivs))), Tail(ivs), interval)

\* AlignmentModel.interval_offset (phi)
interval_offset(ivs, b, e, g, interval) ==
    LET bl == beta_L(b, e, g)
    IN IF ~bl.ok THEN bl ELSE interval_offset_from(bl.val[1], ivs, interval)

\* the interval objects a kernel or an offset is asked for: one of the
\* sequence, or one that was never added
Targets(ivs) ==
    { ivs[k] : k \in 1..Len(ivs) } \cup { NewInterval(FreshId(ivs), "MIN_MAX", 2) }

ReadIntervalOffset ==
    \E interval \in Targets(intervals) :
        /\ ret' = CallWith("interval_offset", << interval.id >>, << interval >>,
                           interval_offset(intervals, qry_begin, qry_end, gamma_d, interval))
        /\ UNCHANGED << problem, ref_begin, qry_begin, qry_end, gamma_d, intervals >>

\* IntervalKernel.qry_idx: list.index raises ValueError for an interval that
\* is not in the sequence; its result is not returned, the property gives None
qry_idx(ivs, interval) ==
    IF interval.id \in IdsOf(ivs) THEN Ok(None) ELSE Raise("NotFoundError")

ReadQryIdx ==
    \E interval \in Targets(intervals) :
        /\ ret' = CallWith("qry_idx", << interval.id >>, << interval >>,
                           qry_idx(intervals, interval))
        /\ UNCHANGED << problem, ref_begin, qry_begin, qry_end, gamma_d, intervals >>

\* IntervalPairKernel.__init__: the _ref_idx it stores (val)
new_pair_kernel(ivs, interval, ref_idx) ==
    IF IsNone(ref_idx) THEN qry_idx(ivs, interval) ELSE Ok(ref_idx)

\* IntervalPairKernel.ref_support of a kernel that stores _ref_idx
ref_support(ivs, rb, stored) ==
    IF IsNone(stored) THEN Raise("TypeError")
    ELSE IF Get(stored) + 1 > Len(ivs) THEN Raise("IndexError")
    ELSE LET tb == reference_boundaries(ivs, rb)
         IN Ok(<< tb[Get(stored) + 1], tb[Get(stored) + 2] >>)

\* the reference indexes a caller passes: none, or 0 .. P
RefIdxs(ivs) == {None} \cup { Some(i) : i \in 0..Len(ivs) }

\* IntervalPairKernel(interval).ref_idx and .ref_support, built without or
\* with a ref_idx: val is the stored _ref_idx followed by the support
NewPairKernel ==
    \E interval \in Targets(intervals), ref_idx \in RefIdxs(intervals) :
        LET k == new_pair_kernel(intervals, interval, ref_idx)
            s == ref_support(intervals, ref_begin, k.val)
        IN /\ ret' = CallWith("pair_kernel", << interval.id >> \o ref_idx, << interval >>,
                              IF ~k.ok THEN k
                              ELSE IF ~s.ok THEN RaiseWith(s.err, 0)
                              ELSE Ok(k.val \o s.val))
           /\ UNCHANGED << problem, ref_begin, qry_begin, qry_end, gamma_d, intervals >>

\* IntervalKernel.source_begin (s_b)
source_begin(ivs, b, e, g, interval) ==
    LET bl == beta_L(b, e, g)
        offset == interval_offset(ivs, b, e, g, interval)
    IN IF ~bl.ok THEN bl
       ELSE IF ~offset.ok THEN offset
       ELSE Ok(<< bl.val[1] + offset.val[1] >>)

\* IntervalKernel.qry_support
qry_support(ivs, b, e, g, interval) ==
    LET s_b == source_begin(ivs, b, e, g, interval)
    IN IF ~s_b.ok THEN s_b
       ELSE IF IsNone(length_attr(interval)) THEN Raise("TypeError")
       ELSE Ok(<< s_b.val[1], s_b.val[1] + Get(length_attr(interval)) >>)

\* k.source_begin for a kernel k on an interval of the model
ReadSourceBegin ==
    \E j \in 1..Len(intervals) :
        /\ ret' = CallWith("source_begin", << intervals[j].id >>, << intervals[j] >>,
                           source_begin(intervals, qry_begin, qry_end, gamma_d, intervals[j]))
        /\ UNCHANGED << problem, ref_begin, qry_begin, qry_end, gamma_d, intervals >>

\* k.qry_support for a kernel k of a class that keeps IntervalKernel's
ReadQrySupport ==
    \E j \in 1..Len(intervals) :
        /\ ret' = CallWith("qry_support", << intervals[j].id >>, << intervals[j] >>,
                           qry_support(intervals, qry_begin, qry_end, gamma_d, intervals[j]))
        /\ UNCHANGED << problem, ref_begin, qry_begin, qry_end, gamma_d, intervals >>

\* LinearWarpingKernel.__call__ of a kernel that stores _ref_idx.  The
\* argument handed to f_qry is the fraction val[1] / val[2].
linear_warping_kernel(ivs, rb, b, e, g, interval, stored, x) ==
    LET s == ref_support(ivs, rb, stored)
    IN IF ~s.ok THEN s
       ELSE IF x < s.val[1] \/ x > s.val[2] THEN Raise("OutOfRangeError")
       ELSE LET s_b == source_begin(ivs, b, e, g, interval)
                t_b == s.val[1]
                delta_t == s.val[2] - s.val[1]
            IN IF ~s_b.ok THEN s_b
               ELSE IF IsNone(length_attr(interval)) THEN Raise("TypeError")
               ELSE Ok(<< s_b.val[1] * delta_t + Get(length_attr(interval)) * (x - t_b),
                          delta_t >>)

\* LinearWarpingKernel(interval, ref_idx)(x) for an interval of the model
CallLinearWarpingKernel ==
    \E j \in 1..Len(intervals), ref_idx \in RefIdxs(intervals), x \in Xs :
        LET k == new_pair_kernel(intervals, intervals[j], ref_idx)
        IN /\ ret' = CallWith("linear_warping_kernel",
                              << intervals[j].id, x >> \o ref_idx, << intervals[j] >>,
                              linear_warping_kernel(intervals, ref_begin, qry_begin, qry_end,
                                                    gamma_d, intervals[j], k.val, x))
           /\ UNCHANGED << problem, ref_begin, qry_begin, qry_end, gamma_d, intervals >>

\* ------------------------------------------------------ AlignmentProblem
\* A kernel object as the problem sees it: the interval it encloses (the
\* identity of an interval object) and its class.  A CompositeKernel and a
\* MultiReferenceKernel take the interval of the kernel they wrap.
KernelClasses == {"LinearWarpingKernel", "CompositeKernel", "MultiReferenceKernel"}
KernelIntervals == 1..2
Kernels == [interval : KernelIntervals, class : KernelClasses]

\* AlignmentProblem.add_interval_pair_kernel of iatw/AlignmentProblem.py
add_interval_pair_kernel(kernels, kernel) == Ok(<< >>)

AddIntervalPairKernel ==
    \E kernel \in Kernels :
        LET res == add_interval_pair_kernel(problem.kernels, kernel)
        IN /\ Len(problem.kernels) < MaxKernels
           /\ problem' = [problem EXCEPT !.kernels = Append(@, kernel)]
           /\ ret' = Call("add_interval_pair_kernel", << kernel.interval >>, res)
           /\ UNCHANGED << ref_begin, qry_begin, qry_end, gamma_d, intervals >>

\* AlignmentProblem.add_interval_pair_kernel of iatw/problem/AlignmentProblem.py
problem_add_interval_pair_kernel(kernels, kernel) ==
    IF \E k \in 1..Len(kernels) : kernels[k].interval = kernel.interval
    THEN Raise("ConfigurationError")
    ELSE Ok(<< >>)

ProblemAddIntervalPairKernel ==
    \E kernel \in Kernels :
        LET res == problem_add_interval_pair_kernel(problem.pkernels, kernel)
        IN /\ problem' = IF res.ok THEN [problem EXCEPT !.pkernels = Append(@, kernel)]
                         ELSE problem
           /\ ret' = Call("problem_add_interval_pair_kernel", << kernel.interval >>, res)
           /\ UNCHANGED << ref_begin, qry_begin, qry_end, gamma_d, intervals >>

\* deque.remove taking every occurrence
deque_remove_all(s, x) ==
    IF \A k \in 1..Len(s) : s[k] # x
    THEN [res |-> Raise("NotFoundError"), deque |-> s]
    ELSE [res |-> Ok(<< >>), deque |-> SelectSeq(s, LAMBDA y : y # x)]

\* deque.remove: the first occurrence goes, ValueError if there is none
deque_remove(s, x) ==
    IF \A k \in 1..Len(s) : s[k] # x
    THEN [res |-> Raise("NotFoundError"), deque |-> s]
    ELSE LET j == CHOOSE k \in 1..Len(s) : s[k] = x /\ \A i \in 1..(k - 1) : s[i] # x
         IN [res |-> Ok(<< >>), deque |-> SubSeq(s, 1, j - 1) \o SubSeq(s, j + 1, Len(s))]

\* the loss objects a caller passes
Losses == 1..2

\* AlignmentProblem.add_loss
AddLoss ==
    \E loss \in Losses :
        /\ Len(problem.losses) < MaxLosses
        /\ problem' = [problem EXCEPT !.losses = Append(@, loss)]
        /\ ret' = Call("add_loss", << loss >>, Ok(<< >>))
        /\ UNCHANGED << ref_begin, qry_begin, qry_end, gamma_d, intervals >>

\* AlignmentProblem.remove_loss
RemoveLoss ==
    \E loss \in Losses :
        LET r == deque_remove(problem.losses, loss)
        IN /\ problem' = [problem EXCEPT !.losses = r.deque]
           /\ ret' = Call("remove_loss", << loss >>, r.res)
           /\ UNCHANGED << ref_begin, qry_begin, qry_end, gamma_d, intervals >>

\* AlignmentProblem.add_regularizer
AddRegularizer ==
    \E reg \in Losses :
        /\ Len(problem.regularizers) < MaxLosses
        /\ problem' = [problem EXCEPT !.regularizers = Append(@, reg)]
        /\ ret' = Call("add_regularizer", << reg >>, Ok(<< >>))
        /\ UNCHANGED << ref_begin, qry_begin, qry_end, gamma_d, intervals >>

\* AlignmentProblem.remove_regularizer
RemoveRegularizer ==
    \E reg \in Losses :
        LET r == deque_remove(problem.regularizers, reg)
        IN /\ problem' = [problem EXCEPT !.regularizers = r.deque]
           /\ ret' = Call("remove_regularizer", << reg >>, r.res)
           /\ UNCHANGED << ref_begin, qry_begin, qry_end, gamma_d, intervals >>

\* ------------------------------------------------------- specifications
\* the interval sequence and the reference axis
Next ==
    \/ AddInterval
    \/ SetRefLength
    \/ SetRefSupp
    \/ SetRefBegin
    \/ ReadReferenceBoundaries
    \/ ReadPForX

Spec == Init /\ [][Next]_vars

\* the interval sequence and the lengths on the query axis
NextLen ==
    \/ AddInterval
    \/ SetParamValue
    \/ ReadAvailableLength
    \/ ReadMuR
    \/ ReadLength
    \/ FlexibleSetLength

SpecLen == Init /\ [][NextLen]_vars

\* the interval objects: construction and the setters of their classes
NextIv ==
    \/ ConstructInterval
    \/ AddInterval
    \/ SetRefLength
    \/ SetLength
    \/ SetMinMaxLengths

SpecIv == Init /\ [][NextIv]_vars

\* AlignmentModel.__init__ of the test's create_model(), with qry_begin at
\* 0.0 as there or at 1.0
InitKernel ==
    /\ ref_begin = Parameter(Some(0), Some(0), Some(RefBeginUpper), FALSE)
    /\ \E bv \in 0..1 : qry_begin = Parameter(Some(bv), Some(0), Some(QryBeginUpper), TRUE)
    /\ qry_end = Parameter(Some(QryEndValue), Some(0), Some(QryEndUpper), TRUE)
    /\ gamma_d = None
    /\ intervals = << >>
    /\ problem = NewProblem
    /\ ret = Call("init", << >>, Ok(<< >>))

\* AlignmentModel.__init__ as in the test's create_model(), with a reference
\* support wide enough for three intervals
InitAdd ==
    /\ ref_begin = Parameter(Some(0), Some(0), Some(MaxSupport), FALSE)
    /\ qry_begin = Parameter(Some(0), Some(0), Some(QryBeginUpper), TRUE)
    /\ qry_end = Parameter(Some(QryEndValue), Some(0), Some(QryEndUpper), TRUE)
    /\ gamma_d = None
    /\ intervals = << >>
    /\ problem = NewProblem
    /\ ret = Call("init", << >>, Ok(<< >>))

\* the interval sequence alone
NextAdd ==
    \/ AddInterval
    \/ ReadIntervals

SpecAdd == InitAdd /\ [][NextAdd]_vars

\* the construction of models
NextInit ==
    \/ ConstructModel
    \/ AddInterval

SpecInit == Init /\ [][NextInit]_vars

\* the bounds and the value of a parameter
NextParam ==
    \/ SetBounds
    \/ SetQryBegin

SpecParam == Init /\ [][NextParam]_vars

\* the kernels of a problem, for either class AlignmentProblem
NextProblem ==
    \/ AddIntervalPairKernel
    \/ ProblemAddIntervalPairKernel

SpecProblem == Init /\ [][NextProblem]_vars

\* the losses and regularizers of a problem
NextLoss ==
    \/ AddLoss
    \/ RemoveLoss
    \/ AddRegularizer
    \/ RemoveRegularizer

SpecLoss == Init /\ [][NextLoss]_vars

\* the spans of the kernels on the query axis
NextTile ==
    \/ AddInterval
    \/ SetParamValue
    \/ ReadSourceBegin
    \/ ReadQrySupport

SpecTile == InitKernel /\ [][NextTile]_vars

\* the kernels on the intervals of a model
NextKernel ==
    \/ AddInterval
    \/ SetParamValue
    \/ ReadIntervalOffset
    \/ ReadQryIdx
    \/ NewPairKernel
    \/ CallLinearWarpingKernel

SpecKernel == InitKernel /\ [][NextKernel]_vars

\* AlignmentModel.__init__ with any query parameters it accepts
\* (qry_begin.lower_bound < qry_end.upper_bound) and any gamma_d
InitBeta ==
    /\ ref_begin = Parameter(Some(0), Some(0), Some(RefBeginUpper), FALSE)
    /\ \E bl \in 0..1, eu \in (MaxQry - 1)..MaxQry, bv \in QryValues, ev \in QryValues :
          /\ ~(bl >= eu)
          /\ qry_begin = Parameter(Some(bv), Some(bl), Some(eu), TRUE)
          /\ qry_end = Parameter(Some(ev), Some(bl), Some(eu), TRUE)
    /\ gamma_d \in {None} \cup { Some(g) : g \in 0..MaxGamma }
    /\ intervals = << >>
    /\ problem = NewProblem
    /\ ret = Call("init", << >>, Ok(<< >>))

NextBeta ==
    \/ SetQryBegin
    \/ SetQryEnd
    \/ ReadBetaL
    \/ ReadBetaU

SpecBeta == InitBeta /\ [][NextBeta]_vars

\* ------------------------------------------------------------ properties
\* what the properties speak of, stated on the state itself
RefSpan == Get(ref_begin.upper_bound) - Get(ref_begin.lower_bound)

RECURSIVE TotalRefLength(_, _)
TotalRefLength(ivs, k) == IF k = 0 THEN 0 ELSE ivs[k].ref_length + TotalRefLength(ivs, k - 1)

FlexibleCount(ivs) == Cardinality({ k \in 1..Len(ivs) : ivs[k].interval_type = "FLEXIBLE" })

\* theta_b[k], k = 0..P
Theta(k) == Get(ref_begin.value) + TotalRefLength(intervals, k)

\* C1: in every reachable state the reference lengths of the intervals of
\* the model sum to at most ref_begin.upper_bound - ref_begin.lower_bound.
C1_RefLengthWithinSupport == TotalRefLength(intervals, Len(intervals)) <= RefSpan

\* C2: add_interval fails with CapacityError exactly when the used reference
\* length plus the new interval's exceeds the reference span, reporting the
\* overage, and a failed call leaves the interval sequence as it was.
C2_FailsExactlyOnOverflow ==
    [][ret'.op = "add_interval" =>
          LET total == TotalRefLength(intervals, Len(intervals)) + ret'.interval[1].ref_length
          IN /\ (ret'.err = "CapacityError") <=> (total > RefSpan)
             /\ ~ret'.ok => intervals' = intervals
      ]_vars

\* C2 (amended): add_interval fails, and then with CapacityError, exactly when
\* the used reference length plus the new interval's exceeds the reference
\* span (the error reports the overage) or the interval is FLEXIBLE and the
\* model already holds a FLEXIBLE interval; a failed call leaves the interval
\* sequence as it was.
C2_FailsOnOverflowOrSecondFlexible ==
    [][ret'.op = "add_interval" =>
          LET total == TotalRefLength(intervals, Len(intervals)) + ret'.interval[1].ref_length
              second == /\ ret'.interval[1].interval_type = "FLEXIBLE"
                        /\ FlexibleCount(intervals) >= 1
          IN /\ ~ret'.ok <=> (total > RefSpan \/ second)
             /\ ~ret'.ok => ret'.err = "CapacityError" /\ intervals' = intervals
             /\ (~ret'.ok /\ ~second) => ret'.val = << total - RefSpan >>
      ]_vars

\* two intervals of reference length 0.6 on a span of 1.0: the second call
\* fails with overage 0.2 and the first interval alone remains
C2_Witness ==
    /\ ret.op = "add_interval" /\ ret.err = "CapacityError" /\ ret.val = << 1 >>
    /\ RefSpan = 5
    /\ ret.interval[1].ref_length = 3 /\ ret.interval[1].interval_type = "RELATIVE"
    /\ Len(intervals) = 1 /\ intervals[1].ref_length = 3
    /\ intervals[1].id # ret.interval[1].id

\* C3: the model never holds more than one FLEXIBLE interval, and adding a
\* FLEXIBLE interval to a model that holds one fails with CapacityError and
\* leaves the interval sequence as it was, whatever capacity remains.
C3_AtMostOneFlexible ==
    [][/\ FlexibleCount(intervals') <= 1
       /\ (/\ ret'.op = "add_interval"
           /\ ret'.interval[1].interval_type = "FLEXIBLE"
           /\ FlexibleCount(intervals) >= 1)
          => (ret'.err = "CapacityError" /\ intervals' = intervals)
      ]_vars

\* a second FLEXIBLE interval is refused although it would fit
C3_Witness ==
    /\ ret.op = "add_interval" /\ ret.err = "CapacityError"
    /\ ret.interval[1].interval_type = "FLEXIBLE"
    /\ FlexibleCount(intervals) = 1
    /\ \A k \in 1..Len(intervals) : intervals[k].id # ret.interval[1].id
    /\ TotalRefLength(intervals, Len(intervals)) + ret.interval[1].ref_length <= RefSpan

\* C4: reference_boundaries has P+1 elements, starts at ref_begin.value, each
\* further element adds the reference length of the next interval in sequence
\* order (so it is non-decreasing), all as of the state it is read in.
C4_ReferenceBoundaries ==
    ret.op = "reference_boundaries" =>
        LET t == ret.val
            P == Len(intervals)
        IN /\ ret.ok
           /\ Len(t) = P + 1
           /\ t[1] = Get(ref_begin.value)
           /\ \A k \in 1..P : t[k + 1] = t[k] + intervals[k].ref_length
           /\ \A k \in 1..P : t[k] <= t[k + 1]

\* boundaries read after a new begin and a new reference length were set
C4_Witness ==
    /\ ret.op = "reference_boundaries"
    /\ Len(intervals) = 2
    /\ Get(ref_begin.value) = 1
    /\ ret.val = << 1, 4, 6 >>

\* C5: for x within [theta_b[0], theta_b[P]] P_for_x returns the one index i
\* in [0, P-1] with theta_b[i] <= x < theta_b[i+1], or P-1 for x = theta_b[P];
\* for any other x it fails with OutOfRangeError.  For every P.
C5_IndexOfEveryModel ==
    ret.op = "P_for_x" =>
        LET x == ret.arg[1]
            P == Len(intervals)
        IN IF Theta(0) <= x /\ x <= Theta(P)
           THEN /\ ret.ok
                /\ ret.val[1] \in 0..(P - 1)
                /\ \/ Theta(ret.val[1]) <= x /\ x < Theta(ret.val[1] + 1)
                   \/ x = Theta(P) /\ ret.val[1] = P - 1
                /\ \A j \in 0..(P - 1) :
                      (Theta(j) <= x /\ x < Theta(j + 1)) => j = ret.val[1]
           ELSE ret.err = "OutOfRangeError"

\* C5 (amended): the same for every model with at least one interval; on a
\* model without intervals P_for_x(theta_b[0]) returns -1, which is no index,
\* and every other x fails with OutOfRangeError.
C5_IndexOfNonEmptyModel ==
    ret.op = "P_for_x" =>
        LET x == ret.arg[1]
            P == Len(intervals)
        IN IF Theta(0) <= x /\ x <= Theta(P)
           THEN /\ ret.ok
                /\ P = 0 => ret.val = << 0 - 1 >>
                /\ P >= 1 =>
                     /\ ret.val[1] \in 0..(P - 1)
                     /\ \/ Theta(ret.val[1]) <= x /\ x < Theta(ret.val[1] + 1)
                        \/ x = Theta(P) /\ ret.val[1] = P - 1
                     /\ \A j \in 0..(P - 1) :
                           (Theta(j) <= x /\ x < Theta(j + 1)) => j = ret.val[1]
           ELSE ret.err = "OutOfRangeError"

\* x on the boundary between the two intervals belongs to the second
C5_Witness ==
    /\ ret.op = "P_for_x" /\ ret.ok
    /\ Len(intervals) = 2
    /\ ret.arg[1] = Theta(1)
    /\ ret.val = << 1 >>

\* the active query span and the stored lengths, stated on the state itself
BetaDefined ==
    beta_L(qry_begin, qry_end, gamma_d).ok /\ beta_U(qry_begin, qry_end, gamma_d).ok
BetaSpan ==
    beta_U(qry_begin, qry_end, gamma_d).val[1] - beta_L(qry_begin, qry_end, gamma_d).val[1]

RECURSIVE StoredLength(_, _, _)
StoredLength(ivs, k, type) ==
    IF k = 0 THEN 0
    ELSE StoredLength(ivs, k - 1, type)
         + (IF ivs[k].interval_type = type THEN Get(ivs[k].params[1].value) ELSE 0)

\* rho as section 4.3 defines it
Rho ==
    BetaSpan - StoredLength(intervals, Len(intervals), "CONSTANT")
             - StoredLength(intervals, Len(intervals), "MIN_MAX")

Relatives == { k \in 1..Len(intervals) : intervals[k].interval_type = "RELATIVE" }
WeightsPresent == \A k \in Relatives : ~IsNone(intervals[k].params[1].value)
WeightSum == StoredLength(intervals, Len(intervals), "RELATIVE")

\* C6: with gamma_d set, reading beta_L and beta_U never fails and
\* beta_U - beta_L is at least gamma_d, whatever the values and bounds.
C6_SeparationAtLeastGamma ==
    (ret.op \in {"beta_L", "beta_U"} /\ ~IsNone(gamma_d)) =>
        /\ ret.ok
        /\ BetaDefined
        /\ BetaSpan >= Get(gamma_d)

\* C7: with gamma_d unset, reading beta_L or beta_U fails with
\* IllegalStateError if and only if qry_begin.value > qry_end.value; otherwise
\* beta_L is qry_begin.value and beta_U is qry_end.value; the read changes no
\* parameter.
C7_UnsetGammaDelegates ==
    [][(ret'.op \in {"beta_L", "beta_U"} /\ IsNone(gamma_d)) =>
          LET bv == Get(qry_begin.value)
              ev == Get(qry_end.value)
          IN /\ (ret'.err = "IllegalStateError") <=> (bv > ev)
             /\ ~ret'.ok <=> (bv > ev)
             /\ ret'.ok => ret'.val = << IF ret'.op = "beta_L" THEN bv ELSE ev >>
             /\ qry_begin' = qry_begin /\ qry_end' = qry_end
             /\ ref_begin' = ref_begin /\ gamma_d' = gamma_d /\ intervals' = intervals
      ]_vars

\* equal begin and end values are read, not refused
C7_Witness ==
    /\ ret.op = "beta_L" /\ ret.ok /\ IsNone(gamma_d)
    /\ Get(qry_begin.value) = Get(qry_end.value)
    /\ ret.val = qry_begin.value

\* C8: wherever beta_L and beta_U are defined, available_length returns
\* beta_U - beta_L minus the lengths of the CONSTANT and of the MIN_MAX
\* intervals.
C8_AvailableLength ==
    (ret.op = "available_length" /\ BetaDefined) =>
        /\ ret.ok
        /\ ret.val = << Rho >>

\* C9: with N_r >= 1 RELATIVE intervals, mu_R is 1/N_r if the weights sum to
\* 0 and 0 otherwise, and the length of a RELATIVE interval is rho / N_r in
\* the first case and rho * weight / (sum of weights) in the second.
C9_RelativeLengths ==
    (Relatives # {} /\ WeightsPresent) =>
        LET N_r == Cardinality(Relatives)
        IN /\ ret.op = "mu_R" =>
                /\ ret.ok
                /\ WeightSum = 0 => ret.val[1] * N_r = 1
                /\ WeightSum # 0 => ret.val = << 0 >>
           /\ (ret.op = "length" /\ ret.interval[1].interval_type = "RELATIVE") =>
                /\ ret.ok
                /\ WeightSum = 0 => ret.val[1] * N_r = Rho
                /\ WeightSum # 0 =>
                     ret.val[1] * WeightSum = Rho * Get(ret.interval[1].params[1].value)

\* C10: reading the length of a FlexibleInterval returns the model's
\* available_length; assigning it a length fails with IllegalStateError and
\* changes nothing; its params list is empty.
C10_FlexibleLength ==
    [][/\ (ret'.op = "length" /\ ret'.interval[1].interval_type = "FLEXIBLE") =>
             (ret'.ok /\ ret'.val = << Rho >>)
       /\ ret'.op = "flexible_set_length" =>
             /\ ret'.err = "IllegalStateError"
             /\ intervals' = intervals
             /\ qry_begin' = qry_begin /\ qry_end' = qry_end
             /\ ref_begin' = ref_begin /\ gamma_d' = gamma_d
       /\ \A k \in 1..Len(intervals') :
             intervals'[k].interval_type = "FLEXIBLE" => intervals'[k].params = << >>
      ]_vars

\* C11: setting the length of a ConstantLengthInterval to v >= 0, at
\* construction or later, leaves its parameter with value = lower_bound =
\* upper_bound = v and not trainable; a negative or NaN length fails and
\* leaves value and bounds as they were.
C11_ConstantLengthCollapses ==
    [][/\ (ret'.op = "set_length" /\ ret'.interval[1].interval_type = "CONSTANT") =>
             LET id == ret'.arg[1]
                 v == ret'.arg[2]
             IN IF ~IsNaN(v) /\ v >= 0
                THEN /\ ret'.ok
                     /\ \A k \in 1..Len(intervals') :
                           intervals'[k].id = id =>
                               intervals'[k].params
                                   = << Parameter(Some(v), Some(v), Some(v), FALSE) >>
                ELSE ~ret'.ok /\ intervals' = intervals
       /\ (/\ ret'.op = "ConstantLengthInterval"
           /\ Len(ret'.arg) = 2
           /\ ~IsNaN(ret'.arg[1]) /\ ret'.arg[1] > 0
           /\ ~IsNaN(ret'.arg[2]) /\ ret'.arg[2] >= 0) =>
             /\ ret'.ok
             /\ ret'.interval[1].params
                   = << Parameter(Some(ret'.arg[2]), Some(ret'.arg[2]), Some(ret'.arg[2]), FALSE) >>
      ]_vars

\* C12: the min_max_lengths setter called with (lo, hi) fails with
\* ConfigurationError if lo >= hi or the current length lies below lo or
\* above hi, a failed call leaves the stored bounds as they were, and a
\* successful call stores exactly (lo, hi) around the current length.
C12_MinMaxLengthsGuarded ==
    [][ret'.op = "set_min_max_lengths" =>
          LET id == ret'.arg[1]
              lo == ret'.arg[2]
              hi == ret'.arg[3]
              l == ret'.interval[1].params[1].value
              outside == /\ ~IsNone(l) /\ ~IsNaN(lo) /\ ~IsNaN(hi)
                         /\ (Get(l) < lo \/ Get(l) > hi)
              misordered == ~IsNaN(lo) /\ ~IsNaN(hi) /\ lo >= hi
          IN /\ (misordered \/ outside) => ret'.err = "ConfigurationError"
             /\ ~ret'.ok => intervals' = intervals
             /\ ret'.ok =>
                   \A k \in 1..Len(intervals') :
                       intervals'[k].id = id =>
                           LET p == intervals'[k].params[1]
                           IN /\ p.lower_bound = Some(lo) /\ p.upper_bound = Some(hi)
                              /\ p.value = l
                              /\ lo <= Get(l) /\ Get(l) <= hi
      ]_vars

\* no two kernels of the list enclose the same interval
OneKernelPerInterval(kernels) ==
    \A i \in 1..Len(kernels), j \in 1..Len(kernels) :
        kernels[i].interval = kernels[j].interval => i = j
Enclosed(kernels) == { kernels[k].interval : k \in 1..Len(kernels) }

\* C15: after any add_interval_pair_kernel calls on a problem no two of its
\* kernels enclose the same interval: a call with a kernel (also a composite
\* or multi-reference one) whose interval is already enclosed fails with
\* ConfigurationError and leaves the kernel list as it was.
C15_OneKernelPerInterval ==
    [][/\ OneKernelPerInterval(problem'.kernels)
       /\ OneKernelPerInterval(problem'.pkernels)
       /\ (/\ ret'.op = "add_interval_pair_kernel"
           /\ ret'.arg[1] \in Enclosed(problem.kernels)) =>
             ret'.err = "ConfigurationError" /\ problem' = problem
       /\ (/\ ret'.op = "problem_add_interval_pair_kernel"
           /\ ret'.arg[1] \in Enclosed(problem.pkernels)) =>
             ret'.err = "ConfigurationError" /\ problem' = problem
      ]_vars

\* s without its element at position j
Without(s, j) == SubSeq(s, 1, j - 1) \o SubSeq(s, j + 1, Len(s))

\* removing x from the collection before gives the collection after
RemovedOne(before, after, x, r) ==
    IF \A k \in 1..Len(before) : before[k] # x
    THEN r.err = "NotFoundError" /\ after = before
    ELSE r.ok /\ \E j \in 1..Len(before) : before[j] = x /\ after = Without(before, j)

\* C16: remove_loss and remove_regularizer fail with NotFoundError for an
\* item that is not in the collection and leave both collections as they
\* were; for an item that is present they remove exactly one occurrence and
\* keep the order of the others, as add_loss and add_regularizer append.
C16_RemoveExactlyOne ==
    [][/\ ret'.op = "remove_loss" =>
             /\ RemovedOne(problem.losses, problem'.losses, ret'.arg[1], ret')
             /\ problem'.regularizers = problem.regularizers
       /\ ret'.op = "remove_regularizer" =>
             /\ RemovedOne(problem.regularizers, problem'.regularizers, ret'.arg[1], ret')
             /\ problem'.losses = problem.losses
       /\ ret'.op = "add_loss" =>
             /\ problem'.losses = Append(problem.losses, ret'.arg[1])
             /\ problem'.regularizers = problem.regularizers
       /\ ret'.op = "add_regularizer" =>
             /\ problem'.regularizers = Append(problem.regularizers, ret'.arg[1])
             /\ problem'.losses = problem.losses
      ]_vars

\* a loss that was added twice has been removed once: its later occurrence
\* and the loss added between the two remain, in their order
C16_Witness ==
    /\ ret.op = "remove_loss" /\ ret.ok /\ ret.arg = << 1 >>
    /\ problem.losses = << 2, 1 >>
    /\ problem.regularizers # << >>

\* the first position (from 1) of the object id in the sequence, 0 if absent
PositionOf(ivs, id) ==
    IF id \in IdsOf(ivs)
    THEN CHOOSE k \in 1..Len(ivs) : ivs[k].id = id /\ \A j \in 1..(k - 1) : ivs[j].id # id
    ELSE 0

\* the first k intervals all store a length, and the sum of these lengths
RECURSIVE LengthsStored(_, _)
LengthsStored(ivs, k) ==
    \/ k = 0
    \/ /\ ivs[k].interval_type \in {"MIN_MAX", "CONSTANT"}
       /\ ~IsNone(ivs[k].params[1].value)
       /\ LengthsStored(ivs, k - 1)

RECURSIVE LengthBefore(_, _)
LengthBefore(ivs, k) ==
    IF k = 0 THEN 0 ELSE Get(ivs[k].params[1].value) + LengthBefore(ivs, k - 1)

\* C13: the bounds setter of a parameter fails with ConfigurationError when
\* given lower >= upper or a NaN bound and then leaves the bounds as they
\* were; given lower < upper it stores both and does not change the value.
C13_BoundsValidated ==
    [][ret'.op = "set_bounds" =>
          LET lo == ret'.arg[1]
              hi == ret'.arg[2]
          IN IF IsNaN(lo) \/ IsNaN(hi) \/ lo >= hi
             THEN ret'.err = "ConfigurationError" /\ qry_begin' = qry_begin
             ELSE /\ ret'.ok
                  /\ qry_begin'.lower_bound = Some(lo) /\ qry_begin'.upper_bound = Some(hi)
                  /\ qry_begin'.value = qry_begin.value
      ]_vars

\* C13 (amended): the bounds setter of a parameter never fails: it stores
\* lower and upper as given, also when lower >= upper or a bound is NaN, and
\* changes nothing else of the parameter, whatever its value.
C13_BoundsStoredAsGiven ==
    [][ret'.op = "set_bounds" =>
          /\ ret'.ok
          /\ qry_begin'.lower_bound = Some(ret'.arg[1])
          /\ qry_begin'.upper_bound = Some(ret'.arg[2])
          /\ qry_begin'.value = qry_begin.value
          /\ qry_begin'.is_trainable = qry_begin.is_trainable
      ]_vars

\* the bounds (3.0, 1.0) are stored around the value 0.0
C13_Witness ==
    /\ ret.op = "set_bounds" /\ ret.ok /\ ret.arg = << 3, 1 >>
    /\ qry_begin = Parameter(Some(0), Some(3), Some(1), TRUE)

\* what the constructor is passed
NoConcreteValue(p) == IsNone(p.value) \/ IsNaN(Get(p.value))
BoundsPresent(p) == ~IsNone(p.lower_bound) /\ ~IsNone(p.upper_bound)
ValueOutside(p) ==
    /\ ~NoConcreteValue(p) /\ BoundsPresent(p)
    /\ (Get(p.value) < Get(p.lower_bound) \/ Get(p.value) > Get(p.upper_bound))
EmptySupport(p) ==
    ~BoundsPresent(p) \/ Get(p.lower_bound) >= Get(p.upper_bound)

C14_LinearWarpingKernel ==
    (ret.op = "linear_warping_kernel" /\ Len(ret.arg) = 3 /\ ret.arg[3] < Len(intervals)) =>
        LET x == ret.arg[2]
            t_b == Theta(ret.arg[3])
            t_e == Theta(ret.arg[3] + 1)
            k == PositionOf(intervals, ret.arg[1])
            s_b == source_begin(intervals, qry_begin, qry_end, gamma_d, intervals[k])
            l == intervals[k].params[1].value
        IN IF x < t_b \/ x > t_e
           THEN ret.err = "OutOfRangeError"
           ELSE /\ ret.ok
                /\ (s_b.ok /\ LengthsStored(intervals, k)) =>
                      /\ ret.val[1] * (t_e - t_b)
                            = (s_b.val[1] * (t_e - t_b) + Get(l) * (x - t_b)) * ret.val[2]
                      /\ x = t_b => ret.val[1] = s_b.val[1] * ret.val[2]
                      /\ x = t_e => ret.val[1] = (s_b.val[1] + Get(l)) * ret.val[2]

\* C19: interval_offset of the interval at position k returns beta_L plus
\* the lengths of the intervals at positions 0 .. k-1, and for an interval
\* that is not in the sequence it does not fail and returns beta_L plus the
\* lengths of all intervals.
C19_IntervalOffset ==
    (ret.op = "interval_offset" /\ beta_L(qry_begin, qry_end, gamma_d).ok) =>
        LET pos == PositionOf(intervals, ret.arg[1])
            before == IF pos = 0 THEN Len(intervals) ELSE pos - 1
        IN /\ ret.ok
           /\ LengthsStored(intervals, before) =>
                 ret.val = << beta_L(qry_begin, qry_end, gamma_d).val[1]
                              + LengthBefore(intervals, before) >>

\* C20: qry_idx of a kernel on the interval at position i returns i, a pair
\* kernel built without a ref_idx has ref_idx = i and ref_support =
\* (theta_b[i], theta_b[i+1]), and for an interval that is not in the
\* sequence qry_idx fails with NotFoundError.
C20_KernelIndexes ==
    LET pos == PositionOf(intervals, ret.arg[1])
    IN /\ ret.op = "qry_idx" =>
             IF pos = 0 THEN ret.err = "NotFoundError"
             ELSE ret.ok /\ ret.val = << pos - 1 >>
       /\ (ret.op = "pair_kernel" /\ Len(ret.arg) = 1 /\ pos # 0) =>
             ret.ok /\ ret.val = << pos - 1, Theta(pos - 1), Theta(pos) >>

\* C17: every interval has a reference length greater than 0: constructing
\* an interval with, or setting its ref_length to, a value <= 0 or NaN fails
\* with ConfigurationError, and a failed set leaves the previous ref_length.
C17_RefLengthPositive ==
    [][/\ \A k \in 1..Len(intervals') :
             ~IsNaN(intervals'[k].ref_length) /\ intervals'[k].ref_length > 0
       /\ \A k \in 1..Len(ret'.interval) :
             ~IsNaN(ret'.interval[k].ref_length) /\ ret'.interval[k].ref_length > 0
       /\ (/\ ret'.op \in { ClassOf(t) : t \in IntervalType }
           /\ (IsNaN(ret'.arg[1]) \/ ret'.arg[1] <= 0)) =>
             ret'.err = "ConfigurationError" /\ ret'.interval = << >>
       /\ (/\ ret'.op = "set_ref_length"
           /\ (IsNaN(ret'.arg[2]) \/ ret'.arg[2] <= 0)) =>
             ret'.err = "ConfigurationError" /\ intervals' = intervals
      ]_vars

\* an interval of the model keeps its reference length 0.4 when setting it
\* to 0.0 has failed
C17_Witness ==
    /\ ret.op = "set_ref_length" /\ ret.arg[2] = 0 /\ ret.err = "ConfigurationError"
    /\ \E k \in 1..Len(intervals) :
          intervals[k].id = ret.arg[1] /\ intervals[k].ref_length = 2

\* the identities of the intervals of the given type among the first k
RECURSIVE IdsOfType(_, _, _)
IdsOfType(ivs, k, type) ==
    IF k = 0 THEN << >>
    ELSE IdsOfType(ivs, k - 1, type)
         \o (IF IsNone(type) \/ << TypeValue(ivs[k].interval_type) >> = type
             THEN << ivs[k].id >> ELSE << >>)

\* C21: a successful add_interval(interval, idx) on a model with P intervals
\* leaves P + 1 intervals, the new one at position min(idx, P) for idx >= 0
\* (the default idx appends), the others in their previous order, and the
\* rest of the model as it was; intervals(type) lists exactly the intervals
\* of that type in sequence order.
C21_AddIntervalFrame ==
    [][/\ (ret'.op = "add_interval" /\ ret'.ok) =>
             LET P == Len(intervals)
                 idx == ret'.arg[2]
             IN /\ Len(intervals') = P + 1
                /\ idx >= 0 => intervals'[Min2(idx, P) + 1] = ret'.interval[1]
                /\ idx = maxsize => intervals' = Append(intervals, ret'.interval[1])
                /\ \E j \in 1..(P + 1) :
                      /\ intervals'[j] = ret'.interval[1]
                      /\ Without(intervals', j) = intervals
                /\ ref_begin' = ref_begin /\ qry_begin' = qry_begin
                /\ qry_end' = qry_end /\ gamma_d' = gamma_d
       /\ ret'.op = "intervals" =>
             /\ ret'.ok
             /\ ret'.val = IdsOfType(intervals, Len(intervals), ret'.arg)
             /\ intervals' = intervals
      ]_vars

\* a third interval has been inserted at position 1, between the two that
\* were there, which keep their order
C21_Witness ==
    /\ ret.op = "add_interval" /\ ret.ok /\ ret.arg[2] = 1
    /\ Len(intervals) = 3
    /\ intervals[2] = ret.interval[1]
    /\ intervals[1].id # intervals[3].id
    /\ intervals[1].id # intervals[2].id /\ intervals[3].id # intervals[2].id

\* C22: the query spans of consecutive intervals tile the active query span:
\* for a kernel on the interval at position k, source_begin is beta_L plus
\* the lengths of the intervals at positions 0 .. k-1 (beta_L for the first
\* interval), and the qry_support of interval k ends where the qry_support
\* of interval k+1 begins.
C22_QuerySpansTile ==
    LET k == PositionOf(intervals, ret.arg[1])
        bl == beta_L(qry_begin, qry_end, gamma_d)
    IN /\ (ret.op = "source_begin" /\ bl.ok) =>
             /\ ret.ok
             /\ LengthsStored(intervals, k - 1) =>
                   ret.val = << bl.val[1] + LengthBefore(intervals, k - 1) >>
       /\ (/\ ret.op = "qry_support" /\ bl.ok
           /\ k < Len(intervals)
           /\ intervals[k + 1].id # intervals[k].id) =>
             LET next == source_begin(intervals, qry_begin, qry_end, gamma_d, intervals[k + 1])
             IN /\ ret.ok
                /\ next.ok => ret.val[2] = next.val[1]

\* the length of each of the first k intervals, summed: the stored length
\* of a CONSTANT or MIN_MAX interval, the result of length() for a RELATIVE
\* or FLEXIBLE one
RECURSIVE TotalLength(_, _)
TotalLength(ivs, k) ==
    IF k = 0 THEN Ok(<< 0 >>)
    ELSE LET rest == TotalLength(ivs, k - 1)
             l == IF ivs[k].interval_type \in {"CONSTANT", "MIN_MAX"}
                  THEN Ok(ivs[k].params[1].value)
                  ELSE length(ivs, ivs[k])
         IN IF ~rest.ok THEN rest
            ELSE IF ~l.ok THEN l
            ELSE Ok(<< rest.val[1] + l.val[1] >>)

\* every CONSTANT, MIN_MAX and RELATIVE interval has a value in its parameter
ValuesPresent ==
    \A k \in 1..Len(intervals) :
        intervals[k].interval_type # "FLEXIBLE" => ~IsNone(intervals[k].params[1].value)

\* C23: in a model with at least one RELATIVE or FLEXIBLE interval the
\* lengths of all intervals sum to beta_U - beta_L: the length of every such
\* interval can be read, and the intervals consume the active query span
\* exactly.
C23_LengthsConsumeSpan ==
    (/\ \E k \in 1..Len(intervals) : intervals[k].interval_type \in {"RELATIVE", "FLEXIBLE"}
     /\ ValuesPresent
     /\ BetaDefined) =>
        /\ (ret.op = "length" /\ ret.interval[1].interval_type \in {"RELATIVE", "FLEXIBLE"}) =>
              ret.ok
        /\ TotalLength(intervals, Len(intervals)).ok
        /\ TotalLength(intervals, Len(intervals)).val = << BetaSpan >>

\* C24: assigning ref_begin on a model is all-or-nothing: if the assignment
\* fails (value absent, value outside its bounds, or bounds with lower_bound
\* >= upper_bound refused by the ref_supp setter), the model's ref_begin
\* parameter and ref_supp are afterwards what they were before.
C24_RefBeginAllOrNothing ==
    [][(ret'.op = "set_ref_begin" /\ ~ret'.ok) =>
          /\ ref_begin' = ref_begin
          /\ ref_supp(ref_begin') = ref_supp(ref_begin)
      ]_vars
====
